---------------------------- MODULE Spec2Model ----------------------------
(***************************************************************************)
(* A model of bin/make_blog.py, the static blog generator: file discovery  *)
(* (find_files), Post construction (Post.__init__, Post.unquote), and the  *)
(* build script (__main__): sort, per-post pages, index, year and month    *)
(* archives, the /blog link rewrite and the two feeds.                     *)
(*                                                                         *)
(* Text is modelled as sequences of one-character (or one-token) strings,  *)
(* so that the regular expressions and the JSON encoding act on it.        *)
(***************************************************************************)
EXTENDS Integers, Sequences, FiniteSets, TLC

VARIABLES
    tree,       \* the files under PUBLIC_DIR, in directory-listing order
    md_files,   \* tuple(find_files(conf.local_base, md_extensions))
    posts,      \* the list of Post objects
    pc,         \* the position of __main__
    err,        \* the exception (or quit message) that ended the run
    idx,        \* loop index of the `for filename in md_files` / `for post in posts` loops
    written,    \* the artefacts opened for writing so far (paths)
    render,     \* the latest template render: template, bound posts, title
    archives,   \* the archive renders so far: key, bound posts, title
    yr_done,    \* the years the `for yr in set(...)` loop has finished
    cur_yr,     \* the year of the running iteration of that loop
    mn_done,    \* the months the inner `for mn in set(...)` loop has finished
    uq,         \* a run of Post.unquote applied twice to one string
    ff          \* a run of find_files over one tree and one extension tuple

vars == <<tree, md_files, posts, pc, err, idx, written, render, archives,
          yr_done, cur_yr, mn_done, uq, ff>>

buildVars == <<tree, md_files, posts, pc, err, idx, written, render, archives,
               yr_done, cur_yr, mn_done>>

----------------------------------------------------------------------------
(* Bounds of the model *)

MaxStrLen == 4
MaxFiles == 4
MaxTreeFiles == 2

----------------------------------------------------------------------------
(* Characters *)

DQ == "\""
SQ == "'"
NL == "\n"

\* the character class ['\"] of Post.unquote and of the /blog rewrite
Quotes == {DQ, SQ}

\* s without the positions in drop
DropIndices(s, drop) ==
    LET F[k \in 0..Len(s)] ==
            IF k = 0 THEN <<>>
            ELSE IF k \in drop THEN F[k-1] ELSE Append(F[k-1], s[k])
    IN F[Len(s)]

\* Mutant of unquote: strips the first and last character whatever they are.
unquote_any(string) ==
    IF Len(string) = 0 THEN string
    ELSE DropIndices(string, {1, Len(string)})

\* Post.unquote: re.sub(r"(^['\"]|['\"]$)", "", string).  ^ matches at the
\* start only; $ matches at the end and just before a final newline.  The
\* scan removes every non-overlapping match: a quote at position 1, and a
\* quote at the last position or, when the string ends in a newline, the
\* quote just before that newline.
unquote(string) ==
    LET n == Len(string)
        lead == IF n > 0 /\ string[1] \in Quotes THEN {1} ELSE {}
        trail == IF n > 0 /\ string[n] \in Quotes THEN {n}
                 ELSE IF n > 1 /\ string[n] = NL /\ string[n-1] \in Quotes
                      THEN {n-1}
                      ELSE {}
    IN DropIndices(string, lead \cup trail)

----------------------------------------------------------------------------
(* Post.unquote on its own: every string over quote and non-quote           *)
(* characters, unquoted once and then once more.                            *)

UqAlphabet == {DQ, SQ, "x", NL}

UqStrings == UNION {[1..n -> UqAlphabet] : n \in 0..MaxStrLen}

UqIdle == [calls |-> 0, arg |-> <<>>, once |-> <<>>, twice |-> <<>>]

\* a string unquote has nothing to strip from
Unquoted(s) ==
    /\ ~(Len(s) > 0 /\ s[1] \in Quotes)
    /\ ~(Len(s) > 0 /\ s[Len(s)] \in Quotes)
    /\ ~(Len(s) > 1 /\ s[Len(s)] = NL /\ s[Len(s)-1] \in Quotes)

BuildIdle ==
    /\ tree = <<>> /\ md_files = <<>> /\ posts = <<>>
    /\ pc = "idle" /\ err = "none" /\ idx = 0
    /\ written = {} /\ render = [tmpl |-> "none"] /\ archives = {}
    /\ yr_done = {} /\ cur_yr = 0 /\ mn_done = {}

FfIdle == [pc |-> "idle"]

InitUnquote ==
    /\ BuildIdle
    /\ ff = FfIdle
    /\ \E s \in UqStrings : uq = [calls |-> 0, arg |-> s, once |-> <<>>, twice |-> <<>>]

UnquoteFirst ==
    /\ uq.calls = 0
    /\ uq' = [uq EXCEPT !.calls = 1, !.once = unquote(uq.arg)]
    /\ UNCHANGED <<buildVars, ff>>

UnquoteSecond ==
    /\ uq.calls = 1
    /\ uq' = [uq EXCEPT !.calls = 2, !.twice = unquote(uq.once)]
    /\ UNCHANGED <<buildVars, ff>>

NextUnquote == UnquoteFirst \/ UnquoteSecond

SpecUnquote == InitUnquote /\ [][NextUnquote]_vars

\* C8 (as claimed): unquote is idempotent, unquote(unquote(s)) = unquote(s)
\* for every string s.
C8_UnquoteIdempotent == uq.calls = 2 => uq.twice = uq.once

\* C8 (amended): unquote returns unchanged every string that has no quote
\* at its start, at its end or just before a final newline, so a second
\* call changes nothing exactly when the first result is such a string;
\* and each call removes at most one character from each end.
C8_UnquoteFixesUnquoted ==
    /\ uq.calls >= 1 =>
          /\ Unquoted(uq.arg) => uq.once = uq.arg
          /\ Len(uq.arg) - Len(uq.once) \in 0..2
    /\ uq.calls = 2 => (Unquoted(uq.once) <=> uq.twice = uq.once)

\* C8 witness: a singly quoted string, unquoted twice, second call a no-op.
C8_Witness ==
    /\ uq.calls = 2
    /\ uq.arg = <<DQ, "x", DQ>>
    /\ uq.once = <<"x">>
    /\ uq.twice = <<"x">>

----------------------------------------------------------------------------
(* File discovery: find_files over os.walk *)

\* A path is [dir |-> <<directory names below the root>>, name |-> <<chars>>];
\* a tree is the sequence of the paths of its files, in listing order.

ToLower == [c \in {"A", "D", "M"} |-> CASE c = "A" -> "a" [] c = "D" -> "d" [] c = "M" -> "m"]

\* str.lower()
lower(s) == [k \in 1..Len(s) |-> IF s[k] \in DOMAIN ToLower THEN ToLower[s[k]] ELSE s[k]]

\* str.lstrip(chars) for a one-character set
RECURSIVE lstrip(_, _)
lstrip(s, ch) == IF Len(s) > 0 /\ s[1] = ch THEN lstrip(Tail(s), ch) ELSE s

\* os.path.splitext on a file name: split at the last dot, unless only dots
\* precede it (leading dots are part of the root, not an extension).
splitext(p) ==
    LET dots == {k \in 1..Len(p) : p[k] = "."}
        dotIndex == IF dots = {} THEN 0 ELSE CHOOSE k \in dots : \A j \in dots : j <= k
    IN IF dotIndex > 0 /\ \E k \in 1..(dotIndex - 1) : p[k] # "."
       THEN <<SubSeq(p, 1, dotIndex - 1), SubSeq(p, dotIndex, Len(p))>>
       ELSE <<p, <<>>>>

\* x in a tuple
InTuple(x, t) == \E k \in 1..Len(t) : t[k] = x

IsPrefix(d, e) == Len(d) <= Len(e) /\ SubSeq(e, 1, Len(d)) = d

\* the file names directly in directory dir, in listing order
FileNames(t, dir) ==
    LET F[k \in 0..Len(t)] ==
            IF k = 0 THEN <<>>
            ELSE IF t[k].dir = dir THEN Append(F[k-1], t[k].name) ELSE F[k-1]
    IN F[Len(t)]

\* the subdirectories directly in directory dir, in listing order
DirNames(t, dir) ==
    LET F[k \in 0..Len(t)] ==
            IF k = 0 THEN <<>>
            ELSE LET e == t[k].dir
                 IN IF Len(e) > Len(dir) /\ IsPrefix(dir, e)
                       /\ ~InTuple(e[Len(dir) + 1], F[k-1])
                    THEN Append(F[k-1], e[Len(dir) + 1])
                    ELSE F[k-1]
    IN F[Len(t)]

\* os.walk(top), top-down: (dirpath, dirnames, filenames) for top, then the
\* walk of each subdirectory in turn.
RECURSIVE os_walk(_, _)
os_walk(t, top) ==
    LET subs == DirNames(t, top)
        W[k \in 0..Len(subs)] ==
            IF k = 0 THEN << [dirpath |-> top, filenames |-> FileNames(t, top)] >>
            ELSE W[k-1] \o os_walk(t, Append(top, subs[k]))
    IN W[Len(subs)]

\* the test of line 51 on one file name
ExtensionListed(fname, extensions) ==
    InTuple(lstrip(lower(splitext(fname)[2]), "."), extensions)

\* find_files(base_dir, extensions): the generator's yields, in order
find_files(t, extensions) ==
    LET walk == os_walk(t, <<>>)
        InDir(w) ==
            LET G[j \in 0..Len(w.filenames)] ==
                    IF j = 0 THEN <<>>
                    ELSE IF ExtensionListed(w.filenames[j], extensions)
                         THEN Append(G[j-1], [dir |-> w.dirpath, name |-> w.filenames[j]])
                         ELSE G[j-1]
            IN G[Len(w.filenames)]
        F[k \in 0..Len(walk)] == IF k = 0 THEN <<>> ELSE F[k-1] \o InDir(walk[k])
    IN F[Len(walk)]

Range(s) == {s[k] : k \in 1..Len(s)}

\* the sequences of at most n distinct elements of S
DistinctSeqs(S, n) ==
    UNION {{s \in [1..m -> S] : \A a, b \in 1..m : a # b => s[a] # s[b]} : m \in 0..n}

----------------------------------------------------------------------------
(* find_files on its own: a tree of files at several depths and a           *)
(* configured extension tuple.                                              *)

FfNames == {
    <<"a", ".", "m", "d">>,
    <<"a", ".", "M", "D">>,
    <<"a", ".", "M", "d">>,
    <<".", "m", "d">>,
    <<"m", "d">>,
    <<"a", ".">>,
    <<"a", ".", ".", "m", "d">>,
    <<"a", ".", "m", "d", ".", "t">>,
    <<"a", ".", "t">>,
    <<"a", "m", "d">> }

FfDirs == { <<>>, <<"y">>, <<"y", "m">> }

FfPaths == {[dir |-> d, name |-> n] : d \in FfDirs, n \in FfNames}

FfExtensions == {
    << <<"m", "d">> >>,
    << <<"m", "d">>, <<"t">> >>,
    << <<"M", "D">> >>,
    << <<>> >>,
    <<>> }

InitFind ==
    /\ BuildIdle
    /\ uq = UqIdle
    /\ \E t \in DistinctSeqs(FfPaths, MaxTreeFiles), e \in FfExtensions :
          ff = [pc |-> "start", tree |-> t, extensions |-> e, found |-> <<>>]

\* tuple(find_files(base_dir, extensions))
FindFiles ==
    /\ ff.pc = "start"
    /\ ff' = [ff EXCEPT !.pc = "done", !.found = find_files(ff.tree, ff.extensions)]
    /\ UNCHANGED <<buildVars, uq>>

NextFind == FindFiles

SpecFind == InitFind /\ [][NextFind]_vars

\* the extension of a file name, without its dot: what follows the last dot
\* of a name that has a non-dot character before that dot
ExtOf(name) ==
    IF \E k \in 1..Len(name) : name[k] = "." /\ (\E j \in 1..(k-1) : name[j] # ".")
                                 /\ (\A j \in (k+1)..Len(name) : name[j] # ".")
    THEN LET k == CHOOSE k \in 1..Len(name) :
                     name[k] = "." /\ \A j \in (k+1)..Len(name) : name[j] # "."
         IN SubSeq(name, k + 1, Len(name))
    ELSE <<>>

\* C9: find_files returns exactly the files, at any depth, whose extension
\* compared case-insensitively (without the leading dot) is in the
\* configured set: none omitted, none extra.
C9_FindFilesExact ==
    ff.pc = "done" =>
        /\ Range(ff.found) =
              {f \in Range(ff.tree) :
                  \E k \in 1..Len(ff.extensions) :
                      lower(ExtOf(f.name)) = lower(ff.extensions[k])}
        /\ Len(ff.found) = Cardinality(Range(ff.found))

\* find_files is exact when the configured extensions are lower case
\* (as md_extensions is).
FindFilesExactLowerCase ==
    (ff.pc = "done" /\ \A k \in 1..Len(ff.extensions) : lower(ff.extensions[k]) = ff.extensions[k]) =>
        /\ Range(ff.found) =
              {f \in Range(ff.tree) :
                  \E k \in 1..Len(ff.extensions) :
                      lower(ExtOf(f.name)) = ff.extensions[k]}
        /\ Len(ff.found) = Cardinality(Range(ff.found))

----------------------------------------------------------------------------
(* The content files of the build model *)

\* md_extensions = ('md', 'mdown', 'text')
md_extensions == << <<"m", "d">>, <<"m", "d", "o", "w", "n">>, <<"t", "e", "x", "t">> >>

PathA == [dir |-> <<"2020", "01">>, name |-> <<"a", ".", "m", "d">>]
PathB == [dir |-> <<>>,             name |-> <<"b", ".", "m", "d">>]
PathC == [dir |-> <<"2021", "06">>, name |-> <<"c", ".", "M", "D">>]
PathD == [dir |-> <<"2021", "03">>, name |-> <<"d", ".", "m", "d", "o", "w", "n">>]
PathE == [dir |-> <<"2020", "01">>, name |-> <<"e", ".", "t", "e", "x", "t">>]
PathF == [dir |-> <<>>,             name |-> <<"f", ".", "m", "d">>]
PathG == [dir |-> <<>>,             name |-> <<"g", ".", "m", "d">>]
PathH == [dir |-> <<>>,             name |-> <<"h", ".", "m", "d">>]
PathI == [dir |-> <<>>,             name |-> <<"i", ".", "m", "d">>]
PathJ == [dir |-> <<"2020", "01">>, name |-> <<"a", ".", "h", "t", "m", "l">>]
PathK == [dir |-> <<>>,             name |-> <<"k", ".", "m", "d">>]
PathL == [dir |-> <<"2021", "06">>, name |-> <<"l", ".", "t", "e", "x", "t">>]

BuildPaths == {PathA, PathB, PathC, PathD, PathE, PathF, PathG, PathH, PathI, PathJ, PathK, PathL}

\* What each file holds: whether it can be read, the HTML that
\* md_parser.convert makes of its body, and md_parser.Meta (each value the
\* raw text after "key:", quotes included).
FileContent(path) ==
    CASE path = PathA ->
           [readable |-> TRUE,
            html |-> <<"<a href=", DQ, "/blog", "/2020/01/a", DQ, ">">>,
            meta |-> [title |-> <<DQ, "A", DQ>>, date |-> <<DQ, "2020-01-01", DQ>>]]
      [] path = PathB ->
           [readable |-> TRUE,
            html |-> <<"<p>", "see ", "/blog", "</p>">>,
            meta |-> [title |-> <<"B">>, date |-> <<"2021-06-15">>]]
      [] path = PathC ->
           [readable |-> TRUE,
            html |-> <<"<a href=", SQ, "/blog", SQ, ">", NL, "<img src=", DQ, "/blog", "/c.png", DQ, ">">>,
            meta |-> [title |-> <<SQ, "C", SQ>>, date |-> <<SQ, "2021-06-15", SQ>>]]
      [] path = PathD ->
           [readable |-> TRUE,
            html |-> <<"<p>", "d", "</p>">>,
            meta |-> [title |-> <<"D">>, date |-> <<"March 2, 2021">>]]
      [] path = PathE ->
           [readable |-> TRUE,
            html |-> <<"<p>", "e", "</p>">>,
            meta |-> [title |-> <<"E">>, date |-> <<"2020-03-01T12:00:00-05:00">>]]
      [] path = PathF ->
           [readable |-> TRUE,
            html |-> <<"<p>", "f", "</p>">>,
            meta |-> [title |-> <<"F">>]]
      [] path = PathG ->
           [readable |-> TRUE,
            html |-> <<"<p>", "g", "</p>">>,
            meta |-> [title |-> <<"G">>, date |-> <<"someday">>]]
      [] path = PathH ->
           [readable |-> FALSE,
            html |-> <<>>,
            meta |-> [title |-> <<"H">>, date |-> <<"2020-01-01">>]]
      [] path = PathI ->
           [readable |-> TRUE,
            html |-> <<"<p>", "i", "</p>">>,
            meta |-> [title |-> <<"I">>, date |-> <<DQ, "2020-11-01 01:30", DQ>>]]
      [] path = PathJ ->
           [readable |-> TRUE,
            html |-> <<"<html>">>,
            meta |-> << >>]
      [] path = PathK ->
           [readable |-> TRUE,
            html |-> <<"<p>", "k", "</p>">>,
            meta |-> [date |-> <<"2021-06-15">>]]
      [] path = PathL ->
           [readable |-> TRUE,
            html |-> <<"<a href=", DQ, "/blog", "/2020/01/a", DQ, ">">>,
            meta |-> [title |-> <<DQ, "L", SQ>>, date |-> <<"2021-06-20 09:00">>]]

----------------------------------------------------------------------------
(* Dates *)

NoTz == "None"

\* dateutil.parser.parse on the date texts of the content files: the
\* calendar fields read from the text, and the tzinfo the text carries.
parse_date(text) ==
    CASE text = <<"2020-01-01">> ->
           [ok |-> TRUE, val |-> [year |-> 2020, month |-> 1, day |-> 1, hour |-> 0, tzinfo |-> NoTz]]
      [] text = <<"2021-06-15">> ->
           [ok |-> TRUE, val |-> [year |-> 2021, month |-> 6, day |-> 15, hour |-> 0, tzinfo |-> NoTz]]
      [] text = <<"March 2, 2021">> ->
           [ok |-> TRUE, val |-> [year |-> 2021, month |-> 3, day |-> 2, hour |-> 0, tzinfo |-> NoTz]]
      [] text = <<"2020-03-01T12:00:00-05:00">> ->
           [ok |-> TRUE, val |-> [year |-> 2020, month |-> 3, day |-> 1, hour |-> 12, tzinfo |-> "UTC-05:00"]]
      [] text = <<"2021-06-20 09:00">> ->
           [ok |-> TRUE, val |-> [year |-> 2021, month |-> 6, day |-> 20, hour |-> 9, tzinfo |-> NoTz]]
      [] text = <<"2020-11-01 01:30">> ->
           [ok |-> TRUE, val |-> [year |-> 2020, month |-> 11, day |-> 1, hour |-> 1, tzinfo |-> NoTz]]
      [] OTHER -> [ok |-> FALSE, err |-> "ParserError"]

\* US/Eastern daylight time: from 02:00 on the second Sunday of March to
\* 02:00 on the first Sunday of November.
EasternDst == [y \in {2020, 2021} |->
                  IF y = 2020 THEN [start |-> 8, end |-> 1] ELSE [start |-> 14, end |-> 7]]

\* hours east of UTC
UtcOffset == [tz \in {"EST", "EDT", "UTC-05:00"} |-> IF tz = "EDT" THEN -4 ELSE -5]

\* pytz.timezone("US/Eastern").localize(dt, is_dst=None)
localize(dt) ==
    LET rule == EasternDst[dt.year]
        summer ==
            \/ dt.month \in 4..10
            \/ dt.month = 3  /\ (dt.day > rule.start \/ (dt.day = rule.start /\ dt.hour >= 3))
            \/ dt.month = 11 /\ (dt.day < rule.end \/ (dt.day = rule.end /\ dt.hour < 1))
    IN IF dt.tzinfo # NoTz
       THEN [ok |-> FALSE, err |-> "ValueError: Not naive datetime (tzinfo is already set)"]
       ELSE IF dt.month = 3 /\ dt.day = rule.start /\ dt.hour = 2
       THEN [ok |-> FALSE, err |-> "NonExistentTimeError"]
       ELSE IF dt.month = 11 /\ dt.day = rule.end /\ dt.hour = 1
       THEN [ok |-> FALSE, err |-> "AmbiguousTimeError"]
       ELSE [ok |-> TRUE, val |-> [dt EXCEPT !.tzinfo = IF summer THEN "EDT" ELSE "EST"]]

\* The order of two aware datetimes is the order of their instants.  An
\* hour count that keeps the order of wall-clock times, less the UTC offset.
Instant(d) ==
    (((d.year * 12 + d.month) * 31 + d.day) * 24 + d.hour) - UtcOffset[d.tzinfo]

MonthNames == <<"January", "February", "March", "April", "May", "June", "July",
                "August", "September", "October", "November", "December">>

\* date.strftime('%B %Y')
strftime_B_Y(d) == <<MonthNames[d.month], " ", d.year>>

----------------------------------------------------------------------------
(* Post *)

\* json.dumps of a text: quoted, with " and newline escaped
json_dumps(text) ==
    LET F[k \in 0..Len(text)] ==
            IF k = 0 THEN <<DQ>>
            ELSE IF text[k] = DQ THEN F[k-1] \o <<"\\", DQ>>
            ELSE IF text[k] = NL THEN F[k-1] \o <<"\\", "n">>
            ELSE Append(F[k-1], text[k])
    IN Append(F[Len(text)], DQ)

\* Post.make_slug: the path relative to the blog root, without extension
make_slug(source_path) == [dir |-> source_path.dir, name |-> splitext(source_path.name)[1]]

\* Post.__init__(file_path, md_parser): the Post, or the exception raised
Post(file_path) ==
    LET file == FileContent(file_path)
        meta == file.meta
    IN IF ~file.readable THEN [ok |-> FALSE, err |-> "IOError"]
       ELSE IF "title" \notin DOMAIN meta THEN [ok |-> FALSE, err |-> "KeyError: title"]
       ELSE IF "date" \notin DOMAIN meta THEN [ok |-> FALSE, err |-> "KeyError: date"]
       ELSE LET parsed == parse_date(unquote(meta.date))
            IN IF ~parsed.ok THEN parsed
               ELSE LET local == localize(parsed.val)
                    IN IF ~local.ok THEN local
                       ELSE [ok |-> TRUE,
                             val |-> [source_path |-> file_path,
                                      slug |-> make_slug(file_path),
                                      html |-> file.html,
                                      json_html |-> json_dumps(file.html),
                                      title |-> unquote(meta.title),
                                      date |-> local.val]]

----------------------------------------------------------------------------
(* The steps of __main__ *)

\* Mutant of sorted_by_date: sorts ascending and reverses, so that posts of
\* equal date come out in reverse input order.
sorted_then_reversed(ps) ==
    LET Before(sorted, p) == Cardinality({k \in 1..Len(sorted) : Instant(sorted[k].date) > Instant(p.date)})
        F[k \in 0..Len(ps)] ==
            IF k = 0 THEN <<>>
            ELSE LET n == Before(F[k-1], ps[k])
                 IN SubSeq(F[k-1], 1, n) \o <<ps[k]>> \o SubSeq(F[k-1], n + 1, k - 1)
    IN F[Len(ps)]

\* sorted(posts, key=lambda p: p.date, reverse=True): a stable sort, and
\* reverse=True keeps the input order of equal keys.  Each post is put after
\* the posts already placed whose date is not earlier.
sorted_by_date(ps) ==
    LET Before(sorted, p) == Cardinality({k \in 1..Len(sorted) : Instant(sorted[k].date) >= Instant(p.date)})
        F[k \in 0..Len(ps)] ==
            IF k = 0 THEN <<>>
            ELSE LET n == Before(F[k-1], ps[k])
                 IN SubSeq(F[k-1], 1, n) \o <<ps[k]>> \o SubSeq(F[k-1], n + 1, k - 1)
    IN F[Len(ps)]

\* Mutant of absolute_urls: leaves the text as it is.
absolute_urls_none(html) == html

\* re.sub(r'([\'"])/blog', r'\1https://tshafer.com/blog', post.html)
absolute_urls(html) ==
    LET F[k \in 0..Len(html)] ==
            IF k = 0 THEN <<>>
            ELSE IF html[k] = "/blog" /\ k > 1 /\ html[k-1] \in Quotes
                 THEN F[k-1] \o <<"https://tshafer.com", "/blog">>
                 ELSE Append(F[k-1], html[k])
    IN F[Len(html)]

\* set(p.date.year for p in posts)
Years(ps) == {ps[k].date.year : k \in 1..Len(ps)}

\* set(p.date.month for p in year_posts)
Months(ps) == {ps[k].date.month : k \in 1..Len(ps)}

IsYear(p, yr) == p.date.year = yr
IsMonth(p, mn) == p.date.month = mn

\* Mutant of year_posts: the posts of that year and of the later years.
year_posts_from(ps, yr) == LET T(p) == p.date.year >= yr IN SelectSeq(ps, T)

\* list(filter(lambda p: p.date.year == yr, posts))
year_posts(ps, yr) == LET T(p) == IsYear(p, yr) IN SelectSeq(ps, T)

\* Mutant of month_posts: the posts of that month, latest last.
month_posts_reversed(yps, mn) ==
    LET T(p) == IsMonth(p, mn)
        sel == SelectSeq(yps, T)
    IN [k \in 1..Len(sel) |-> sel[Len(sel) + 1 - k]]

\* list(filter(lambda p: p.date.month == mn, year_posts))
month_posts(yps, mn) == LET T(p) == IsMonth(p, mn) IN SelectSeq(yps, T)

\* f'{yr}'
YearStr(yr) == CASE yr = 2020 -> "2020" [] yr = 2021 -> "2021"

\* '{month:02d}'
MonthStr(mn) == <<"01", "02", "03", "04", "05", "06", "07", "08", "09", "10", "11", "12">>[mn]

IndexHtml == <<"i", "n", "d", "e", "x", ".", "h", "t", "m", "l">>
RssXml == <<"r", "s", "s", ".", "x", "m", "l">>
FeedJson == <<"f", "e", "e", "d", ".", "j", "s", "o", "n">>

\* '{}.html'.format(os.path.splitext(post.source_path)[0])
html_path(post) ==
    [dir |-> post.source_path.dir,
     name |-> splitext(post.source_path.name)[1] \o <<".", "h", "t", "m", "l">>]

\* the directories of the tree
Dirs(t) == {<<>>} \cup UNION {{SubSeq(t[k].dir, 1, n) : n \in 0..Len(t[k].dir)} : k \in 1..Len(t)}

\* codecs.open(path, 'w', 'utf-8') opens a file in an existing directory
\* and raises FileNotFoundError otherwise: it creates no directory.
CanOpen(path) == path.dir \in Dirs(tree)

Init ==
    /\ tree \in DistinctSeqs(BuildPaths, MaxFiles)
    /\ md_files = <<>> /\ posts = <<>>
    /\ pc = "start" /\ err = "none" /\ idx = 0
    /\ written = {} /\ render = [tmpl |-> "none"] /\ archives = {}
    /\ yr_done = {} /\ cur_yr = 0 /\ mn_done = {}
    /\ uq = UqIdle /\ ff = FfIdle

\* lines 130-134: md_files = tuple(find_files(...)); quit if there are none
Discover ==
    /\ pc = "start"
    /\ md_files' = find_files(tree, md_extensions)
    /\ IF md_files' = <<>>
       THEN pc' = "failed" /\ err' = "quit: No markdown files found." /\ idx' = idx
       ELSE pc' = "parse" /\ err' = err /\ idx' = 1
    /\ UNCHANGED <<tree, posts, written, render, archives, yr_done, cur_yr, mn_done, uq, ff>>

\* Mutant of ParsePost: a file that cannot be made a Post is skipped.
ParsePost_skip ==
    /\ pc = "parse"
    /\ LET made == Post(md_files[idx])
       IN posts' = IF made.ok THEN Append(posts, made.val) ELSE posts
    /\ idx' = IF idx = Len(md_files) THEN 1 ELSE idx + 1
    /\ pc' = IF idx = Len(md_files) THEN (IF posts' = <<>> THEN "failed" ELSE "sort") ELSE "parse"
    /\ UNCHANGED <<tree, md_files, err, written, render, archives, yr_done, cur_yr, mn_done, uq, ff>>

\* lines 164-166: one iteration of `for filename in md_files`; an exception
\* of Post(...) ends the run
ParsePost ==
    /\ pc = "parse"
    /\ LET made == Post(md_files[idx])
       IN IF made.ok
          THEN /\ posts' = Append(posts, made.val)
               /\ idx' = IF idx = Len(md_files) THEN 1 ELSE idx + 1
               /\ pc' = IF idx = Len(md_files) THEN "sort" ELSE "parse"
               /\ err' = err
          ELSE /\ pc' = "failed"
               /\ err' = made.err
               /\ UNCHANGED <<posts, idx>>
    /\ UNCHANGED <<tree, md_files, written, render, archives, yr_done, cur_yr, mn_done, uq, ff>>

\* line 167
SortPosts ==
    /\ pc = "sort"
    /\ posts' = sorted_by_date(posts)
    /\ pc' = "posts"
    /\ UNCHANGED <<tree, md_files, err, idx, written, render, archives, yr_done, cur_yr, mn_done, uq, ff>>

\* lines 183-186: one iteration of `for post in posts`
WritePost ==
    /\ pc = "posts"
    /\ written' = written \cup {html_path(posts[idx])}
    /\ render' = [tmpl |-> "post", posts |-> <<posts[idx]>>, title |-> <<>>]
    /\ idx' = IF idx = Len(posts) THEN 1 ELSE idx + 1
    /\ pc' = IF idx = Len(posts) THEN "index" ELSE "posts"
    /\ UNCHANGED <<tree, md_files, posts, err, archives, yr_done, cur_yr, mn_done, uq, ff>>

\* lines 189-190
WriteIndex ==
    /\ pc = "index"
    /\ written' = written \cup {[dir |-> <<>>, name |-> IndexHtml]}
    /\ render' = [tmpl |-> "index", posts |-> posts, title |-> <<>>]
    /\ pc' = "years"
    /\ UNCHANGED <<tree, md_files, posts, err, idx, archives, yr_done, cur_yr, mn_done, uq, ff>>

\* lines 193-196: the head of one iteration of `for yr in set(...)`; the
\* set is iterated in no particular order
WriteYearArchive ==
    /\ pc = "years"
    /\ \E yr \in Years(posts) \ yr_done :
          LET path == [dir |-> <<YearStr(yr)>>, name |-> IndexHtml]
              bound == [tmpl |-> "archive", posts |-> year_posts(posts, yr), title |-> <<yr>>]
          IN IF CanOpen(path)
             THEN /\ written' = written \cup {path}
                  /\ render' = bound
                  /\ archives' = archives \cup {[year |-> yr, month |-> 0, posts |-> bound.posts, title |-> bound.title]}
                  /\ cur_yr' = yr
                  /\ mn_done' = {}
                  /\ pc' = "months"
                  /\ err' = err
             ELSE /\ pc' = "failed"
                  /\ err' = "FileNotFoundError"
                  /\ cur_yr' = yr
                  /\ UNCHANGED <<written, render, archives, mn_done>>
    /\ UNCHANGED <<tree, md_files, posts, idx, yr_done, uq, ff>>

\* lines 197-205: one iteration of `for mn in set(...)`, and the end of the
\* year's iteration after the last month
WriteMonthArchive ==
    /\ pc = "months"
    /\ \E mn \in Months(year_posts(posts, cur_yr)) \ mn_done :
          LET path == [dir |-> <<YearStr(cur_yr), MonthStr(mn)>>, name |-> IndexHtml]
              mps == month_posts(year_posts(posts, cur_yr), mn)
              bound == [tmpl |-> "archive", posts |-> mps, title |-> strftime_B_Y(mps[1].date)]
              last_month == mn_done \cup {mn} = Months(year_posts(posts, cur_yr))
              last_year == yr_done \cup {cur_yr} = Years(posts)
          IN IF CanOpen(path)
             THEN /\ written' = written \cup {path}
                  /\ render' = bound
                  /\ archives' = archives \cup {[year |-> cur_yr, month |-> mn, posts |-> bound.posts, title |-> bound.title]}
                  /\ mn_done' = mn_done \cup {mn}
                  /\ yr_done' = IF last_month THEN yr_done \cup {cur_yr} ELSE yr_done
                  /\ pc' = IF ~last_month THEN "months" ELSE IF last_year THEN "rewrite" ELSE "years"
                  /\ err' = err
             ELSE /\ pc' = "failed"
                  /\ err' = "FileNotFoundError"
                  /\ mn_done' = mn_done \cup {mn}
                  /\ UNCHANGED <<written, render, archives, yr_done>>
    /\ UNCHANGED <<tree, md_files, posts, idx, cur_yr, uq, ff>>

\* lines 213-214: every post's html rewritten in place
RewritePosts ==
    /\ pc = "rewrite"
    /\ posts' = [k \in 1..Len(posts) |-> [posts[k] EXCEPT !.html = absolute_urls(@)]]
    /\ pc' = "rss"
    /\ UNCHANGED <<tree, md_files, err, idx, written, render, archives, yr_done, cur_yr, mn_done, uq, ff>>

\* lines 217-221
WriteRss ==
    /\ pc = "rss"
    /\ written' = written \cup {[dir |-> <<>>, name |-> RssXml]}
    /\ render' = [tmpl |-> "rss", posts |-> posts, title |-> <<>>]
    /\ pc' = "json"
    /\ UNCHANGED <<tree, md_files, posts, err, idx, archives, yr_done, cur_yr, mn_done, uq, ff>>

\* lines 224-228
WriteJson ==
    /\ pc = "json"
    /\ written' = written \cup {[dir |-> <<>>, name |-> FeedJson]}
    /\ render' = [tmpl |-> "json", posts |-> posts, title |-> <<>>]
    /\ pc' = "done"
    /\ UNCHANGED <<tree, md_files, posts, err, idx, archives, yr_done, cur_yr, mn_done, uq, ff>>

Next ==
    \/ Discover
    \/ ParsePost
    \/ SortPosts
    \/ WritePost
    \/ WriteIndex
    \/ WriteYearArchive
    \/ WriteMonthArchive
    \/ RewritePosts
    \/ WriteRss
    \/ WriteJson

Spec == Init /\ [][Next]_vars

----------------------------------------------------------------------------
(* Properties of the build *)

\* the position of path in a sequence of paths (0 when absent)
IndexOf(seq, path) ==
    IF \E k \in 1..Len(seq) : seq[k] = path
    THEN CHOOSE k \in 1..Len(seq) : seq[k] = path
    ELSE 0

SourcePaths(ps) == [k \in 1..Len(ps) |-> ps[k].source_path]

\* the sort of line 167 has run
Sorted ==
    \/ pc \in {"posts", "index", "years", "months", "rewrite", "rss", "json", "done"}
    \/ pc = "failed" /\ err = "FileNotFoundError"

\* the archive loops have finished
ArchivesDone == pc \in {"rewrite", "rss", "json", "done"}

\* C1: after the sort step the collection is non-increasing by date, and
\* posts of equal date are in the order in which discovery returned their
\* files; the sort loses and adds no post.
C1_SortedStable ==
    Sorted =>
        /\ \A a, b \in 1..Len(posts) :
              a < b =>
                 /\ Instant(posts[a].date) >= Instant(posts[b].date)
                 /\ Instant(posts[a].date) = Instant(posts[b].date) =>
                       IndexOf(md_files, posts[a].source_path) < IndexOf(md_files, posts[b].source_path)
        /\ Len(posts) = Len(md_files)
        /\ Range(SourcePaths(posts)) = Range(md_files)

\* C1 witness: three posts sorted, two of them of equal date, and a later
\* post that discovery returned before an earlier one.
C1_Witness ==
    /\ pc = "posts"
    /\ Len(posts) >= 3
    /\ \E a, b \in 1..Len(posts) : a < b /\ Instant(posts[a].date) = Instant(posts[b].date)
    /\ \E a, b \in 1..Len(posts) :
          /\ a < b
          /\ IndexOf(md_files, posts[a].source_path) > IndexOf(md_files, posts[b].source_path)

\* C2: an artefact is written only if discovery returned a file and every
\* discovered file became a Post; when discovery is empty or a Post cannot
\* be constructed the run fails with nothing written.
C2_NoPartialOutput ==
    LET constructible == \A k \in 1..Len(md_files) : Post(md_files[k]).ok
    IN /\ (written # {} \/ pc = "done") =>
             /\ md_files # <<>>
             /\ Len(posts) = Len(md_files)
             /\ Range(SourcePaths(posts)) = Range(md_files)
       /\ (pc # "start" /\ (md_files = <<>> \/ ~constructible)) =>
             /\ written = {}
             /\ pc \in {"parse", "failed"}
             /\ md_files = <<>> => pc = "failed"

\* C2 witness: the run failed on a file without a date after another file
\* had been made a Post, and nothing is written.
C2_Witness ==
    /\ pc = "failed"
    /\ err = "KeyError: date"
    /\ Len(posts) >= 1
    /\ written = {}

\* md_parser.convert(source) of the post's file
ConvertedHtml(p) == FileContent(p.source_path).html

\* a quoted site-relative /blog link
HasRelativeLink(html) == \E k \in 2..Len(html) : html[k] = "/blog" /\ html[k-1] \in Quotes

\* C3: the post, index and archive templates are rendered with each post's
\* html as converted (not rewritten); the feed templates are rendered with
\* each post's html rewritten (no quoted /blog link left).
C3_RewriteBetweenRenders ==
    /\ render.tmpl \in {"post", "index", "archive"} =>
          \A k \in 1..Len(render.posts) : render.posts[k].html = ConvertedHtml(render.posts[k])
    /\ render.tmpl \in {"rss", "json"} =>
          \A k \in 1..Len(render.posts) :
             /\ ~HasRelativeLink(render.posts[k].html)
             /\ HasRelativeLink(ConvertedHtml(render.posts[k])) =>
                   render.posts[k].html # ConvertedHtml(render.posts[k])

\* C3 witness: a feed render of a post with a quoted /blog link that a
\* month archive was rendered with before.
C3_Witness ==
    /\ render.tmpl = "json"
    /\ \E k \in 1..Len(render.posts) :
          /\ HasRelativeLink(ConvertedHtml(render.posts[k]))
          /\ \E a \in archives : a.month # 0 /\ render.posts[k].source_path \in Range(SourcePaths(a.posts))

\* C4: the writes of {root}/{Y}/index.html and {root}/{Y}/{M:02d}/index.html
\* succeed whether or not their directories exist before the build.
C4_ArchiveWritesSucceed ==
    /\ err # "FileNotFoundError"
    /\ ArchivesDone =>
          \A k \in 1..Len(posts) :
             /\ [dir |-> <<YearStr(posts[k].date.year)>>, name |-> IndexHtml] \in written
             /\ [dir |-> <<YearStr(posts[k].date.year), MonthStr(posts[k].date.month)>>,
                 name |-> IndexHtml] \in written

YearArchives == {a \in archives : a.month = 0}

\* the number of places a post has in the year archives
TimesArchived(path) ==
    Cardinality(UNION {{<<a.year, k>> : k \in {j \in 1..Len(a.posts) : a.posts[j].source_path = path}} :
                          a \in YearArchives})

\* C5: the year archives partition the collection: one group per distinct
\* year, every post of a group of that group's year, and every post in
\* exactly one group.
C5_YearsPartition ==
    /\ \A a \in YearArchives :
          /\ \A k \in 1..Len(a.posts) : a.posts[k].date.year = a.year
          /\ \A b \in YearArchives : b.year = a.year => b = a
          /\ a.year \in Years(posts)
    /\ ArchivesDone =>
          /\ {a.year : a \in YearArchives} = Years(posts)
          /\ \A k \in 1..Len(posts) : TimesArchived(posts[k].source_path) = 1

\* C5 witness: a finished build of three posts or more over two years.
C5_Witness ==
    /\ pc = "done"
    /\ Len(posts) >= 3
    /\ Cardinality(YearArchives) = 2

\* C6: the posts bound to a year (year, month) archive are the posts of the
\* collection of that year (and month), each once, in the collection's
\* order, so non-increasing by date; a month archive is titled with the
\* month's name and the year.
C6_ArchiveSubsequence ==
    \A a \in archives :
        LET paths == SourcePaths(a.posts)
        IN /\ Range(paths) =
                 {posts[k].source_path : k \in
                     {j \in 1..Len(posts) :
                         /\ posts[j].date.year = a.year
                         /\ a.month # 0 => posts[j].date.month = a.month}}
           /\ \A i, j \in 1..Len(paths) :
                 i < j =>
                    /\ IndexOf(SourcePaths(posts), paths[i]) < IndexOf(SourcePaths(posts), paths[j])
                    /\ Instant(a.posts[i].date) >= Instant(a.posts[j].date)
           /\ a.month # 0 => a.title = <<MonthNames[a.month], " ", a.year>>
           /\ a.month = 0 => a.title = <<a.year>>

\* C6 witness: a finished build with a month archive of two posts and a
\* year archive of posts of two months.
C6_Witness ==
    /\ pc = "done"
    /\ \E a \in archives : a.month # 0 /\ Len(a.posts) >= 2
    /\ \E a \in archives : a.month = 0 /\ Cardinality(Months(a.posts)) >= 2

\* the construction of a Post from the k-th discovered file has been tried
Attempted(k) ==
    \/ k <= Len(posts)
    \/ pc = "failed" /\ k = Len(posts) + 1
          /\ err \notin {"FileNotFoundError", "quit: No markdown files found."}

\* C7: a date text that carries a timezone gives a Post whose date keeps
\* that timezone; a naive date text gives a Post whose date is that
\* wall-clock time in US/Eastern.
C7_LocalizeOnlyNaive ==
    \A k \in 1..Len(md_files) :
        LET file == FileContent(md_files[k])
            parsed == parse_date(unquote(file.meta.date))
            made == {p \in Range(posts) : p.source_path = md_files[k]}
        IN (Attempted(k) /\ file.readable /\ DOMAIN file.meta = {"title", "date"} /\ parsed.ok) =>
              /\ parsed.val.tzinfo # NoTz =>
                    \E p \in made : p.date = parsed.val
              /\ parsed.val.tzinfo = NoTz =>
                    \A p \in made : /\ p.date.tzinfo \in {"EST", "EDT"}
                                    /\ [p.date EXCEPT !.tzinfo = NoTz] = parsed.val

\* C10: at every template render each bound Post's json_html is the JSON
\* encoding of its html as it is then.
C10_JsonHtmlCurrent ==
    render.tmpl # "none" =>
        \A k \in 1..Len(render.posts) :
            render.posts[k].json_html = json_dumps(render.posts[k].html)

=============================================================================
